---- MODULE Spec2Model ----
(***************************************************************************)
(* Volume-clock bucketing with rolling toxicity (calculate_vpin in         *)
(* vpin_calculator.py) followed by the per-trade fee scan                  *)
(* (FeeCalculationSimulator.calculate_fees_with_vpin_full_timeseries in    *)
(* backtesting/scripts/fee_calculation_sim.py).                            *)
(*                                                                         *)
(* Numbers are exact rationals <<n, d>> with d > 0 in lowest terms; the    *)
(* rounding of IEEE doubles is not modelled.  The doubles that are not     *)
(* numbers keep their arithmetic: <<1, 0>> and <<-1, 0>> are the           *)
(* infinities and <<0, 0>> is the result of 0/0.  A missing value (None,   *)
(* a NaN cell of a frame, an unbound local) is the empty tuple.            *)
(***************************************************************************)
EXTENDS Integers, Sequences, FiniteSets, TLC

\* ---------------------------------------------------------------- numbers

None == <<>>

Abs(i) == IF i < 0 THEN -i ELSE i

RECURSIVE GCD(_, _)
GCD(a, b) == IF b = 0 THEN a ELSE GCD(b, a % b)

Norm(n, d) ==
    LET g == GCD(Abs(n), Abs(d))
        s == IF d < 0 THEN -1 ELSE 1
    IN  IF g = 0 THEN <<0, 0>> ELSE <<(s * n) \div g, (s * d) \div g>>

R(i) == <<i, 1>>

Zero == R(0)

\* float('inf')
Inf == <<1, 0>>

\* float('nan') out of an operation
NaN == <<0, 0>>

RAdd(x, y) == Norm(x[1] * y[2] + y[1] * x[2], x[2] * y[2])

RSub(x, y) == Norm(x[1] * y[2] - y[1] * x[2], x[2] * y[2])

RMul(x, y) == Norm(x[1] * y[1], x[2] * y[2])

RDiv(x, y) == Norm(x[1] * y[2], x[2] * y[1])

RAbs(x) == <<Abs(x[1]), x[2]>>

\* comparisons with nan are False; two infinities compare by sign
RLess(x, y) ==
    /\ x # NaN
    /\ y # NaN
    /\ IF x[2] = 0 /\ y[2] = 0 THEN x[1] < y[1] ELSE x[1] * y[2] < y[1] * x[2]

RLeq(x, y) ==
    /\ x # NaN
    /\ y # NaN
    /\ IF x[2] = 0 /\ y[2] = 0 THEN x[1] <= y[1] ELSE x[1] * y[2] <= y[1] * x[2]

RMin(x, y) == IF RLeq(x, y) THEN x ELSE y

\* the sum of a list, added up by halves (exact, so the order is immaterial)
RECURSIVE RSum(_)
RSum(s) ==
    IF s = <<>> THEN Zero
    ELSE IF Len(s) = 1 THEN s[1]
    ELSE LET h == Len(s) \div 2
         IN  RAdd(RSum(SubSeq(s, 1, h)), RSum(SubSeq(s, h + 1, Len(s))))

\* np.mean of a non-empty list
Mean(s) == RDiv(RSum(s), R(Len(s)))

\* math.sqrt, on the perfect squares the model draws prices from
Sqrt(p) == CHOOSE s \in 0..p : s * s = p

\* ----------------------------------------------------------------- bounds

\* longest tape of the bucketing runs
MaxTrades == 3

\* length of the tapes that fill the rolling windows
LongTrades == 270

\* length of the tapes long enough for the sort to partition them
OrderTrades == 18

\* iterations of the while loop followed for one trade; a trade of the model
\* needs at most four with a positive bucket_size, and with bucket_size 0 the
\* loop never ends
MaxFragments == 6

\* longest tape of the fee runs
MaxRows == 3

\* ------------------------------------------------------ program constants

\* bucket_size = avg_daily_volume / 50
BucketsPerDay == 50

\* the longest range (last - first) that numpy's quicksort sorts by insertion
SmallQuicksort == 16

\* sample_lengths
WindowKeys == {"vpin_daily", "vpin_5day", "vpin_7day"}

sample_lengths ==
    [key \in WindowKeys |->
        CASE key = "vpin_daily" -> 50
          [] key = "vpin_5day"  -> 250
          [] key = "vpin_7day"  -> 350]

\* default arguments of calculate_fees_with_vpin_full_timeseries
vpin_type == "vpin_daily"

\* base_fee_pct = 0.05
base_fee_pct == <<1, 20>>

\* position_params handed to the fee scan: a position over prices 4 .. 36
position_params ==
    [liquidity |-> R(12), sqrt_lower |-> R(2), sqrt_upper |-> R(6),
     lower_price |-> R(4), upper_price |-> R(36)]

\* ----------------------------------------------------------------- inputs

\* one CSV row as drawn: signed volume, ILLIQ cell, price, minutes since the
\* row before it
RowChoices(vols, illiqs, prices, gaps) ==
    [tradevolume : vols, ILLIQ : illiqs, price : prices, gap : gaps]

RECURSIVE TimestampOf(_, _)
TimestampOf(c, i) == IF i = 0 THEN 0 ELSE TimestampOf(c, i - 1) + c[i].gap

\* the rows of all_days_combined_<pool>.csv, in file order (ascending
\* timestamp: combine_minute_csvs.py sorts before it writes); `line` is the
\* row's position in the file
MkTape(c) ==
    [i \in 1..Len(c) |->
        [line |-> i, timestamp |-> TimestampOf(c, i),
         tradevolume |-> c[i].tradevolume, ILLIQ |-> c[i].ILLIQ,
         price |-> c[i].price]]

Tapes(vols, illiqs, prices, gaps, maxlen) ==
    {MkTape(c) : c \in UNION {[1..n -> RowChoices(vols, illiqs, prices, gaps)] :
                               n \in 0..maxlen}}

\* avg_daily_volume: the mean over the dates of the daily sums of the
\* abs_tradevolume column.  Rows carry neither a date nor that column here, so
\* the statistic is an input of its own, and with it bucket_size (20 or 50).
AvgDailyVolumes == {R(1000), R(2500)}

\* the statistic of a tape whose abs_tradevolume column is all zero, or holds
\* an infinite entry, next to an ordinary one
DegenerateAvgDailyVolumes == {Zero, Inf, R(1000)}

Volumes == {-20, 0, 30, 60}

FeeVolumes == {-20, 0, 30}

Illiqs == {None, Zero, R(1000000), R(2000000)}

\* volumes of the fee scenario: -25 then +10 leave one bucket of imbalance 0.3
ScenarioVolumes == {-25, 0, 10}

\* ILLIQ cells with an infinite reading among them
ScenarioIlliqs == {None, Zero, Inf, R(1000000)}

Prices == {9, 16}

\* volumes repeated in turn along a long tape
LongPatterns == {<<30, -20, 60>>, <<60, -20>>, <<-20, 30, 30>>}

\* volumes repeated in turn along a tape that the sort partitions
OrderPatterns == {<<-20, 30>>, <<30, 0>>, <<0, -20, 30>>}

\* a tape of n rows one minute apart that cycles through the pattern; with
\* k > 0 rows k and k + 1 share a timestamp
OrderTape(pattern, n, k) ==
    [i \in 1..n |->
        [line |-> i, timestamp |-> IF k > 0 /\ i > k THEN i - 1 ELSE i,
         tradevolume |-> pattern[((i - 1) % Len(pattern)) + 1],
         ILLIQ |-> IF i % 4 = 1 THEN R(1000000) ELSE None, price |-> 16]]

\* a tape of n trades one minute apart that cycles through the pattern
LongTape(pattern, n) ==
    [i \in 1..n |->
        [line |-> i, timestamp |-> i,
         tradevolume |-> pattern[((i - 1) % Len(pattern)) + 1],
         ILLIQ |-> None, price |-> 16]]

Gaps == {0, 1}

\* ------------------------------------------------------------------ state

VARIABLES
    pc,                         \* position in the pipeline
    tape,                       \* the combined CSV
    avg_daily_volume,           \* calculate_vpin: daily_volume.mean()
    df,                         \* calculate_vpin: rows with tradevolume != 0
    bucket_size,
    current_bucket_abs_volume,
    current_bucket_net_volume,
    bucket_imbalances_map,
    bucket_details,
    idx,                        \* position of the for loop in df, from 1
    remaining_volume,
    remaining_net_volume,
    fragments,                  \* history: what the trade in hand has added, per iteration
    current_bucket_lines,       \* history: lines of the rows that filled the open bucket
    bucket_lines,               \* history: the same, per emitted bucket
    vpin_file,                  \* the CSV calculate_vpin writes, None when not written
    data,                       \* FeeCalculationSimulator.data
    vpin_data,                  \* FeeCalculationSimulator.vpin_data
    row_idx,                    \* position of the fee loop in data, from 1
    vpin_idx,                   \* toxicity cursor, from 0 as in the source
    latest_vpin,
    latest_illiq,
    inventory_exposure,         \* local of the fee loop, None while unbound
    results,
    merged                      \* the combined series, None until written

vpinVars ==
    <<avg_daily_volume, df, bucket_size, current_bucket_abs_volume,
      current_bucket_net_volume, bucket_imbalances_map, bucket_details, idx,
      remaining_volume, remaining_net_volume, fragments, current_bucket_lines,
      bucket_lines, vpin_file>>

feeVars ==
    <<data, vpin_data, row_idx, vpin_idx, latest_vpin, latest_illiq,
      inventory_exposure, results, merged>>

vars == <<pc, tape, vpinVars, feeVars>>

\* the state before calculate_vpin is called on the tape t
InitOn(t, adv) ==
    /\ pc = "vpin_load"
    /\ tape = t
    /\ avg_daily_volume = adv
    /\ df = <<>>
    /\ bucket_size = None
    /\ current_bucket_abs_volume = Zero
    /\ current_bucket_net_volume = Zero
    /\ bucket_imbalances_map = [key \in WindowKeys |-> <<>>]
    /\ bucket_details = <<>>
    /\ idx = 1
    /\ remaining_volume = Zero
    /\ remaining_net_volume = Zero
    /\ fragments = <<>>
    /\ current_bucket_lines = {}
    /\ bucket_lines = <<>>
    /\ vpin_file = None
    /\ data = <<>>
    /\ vpin_data = None
    /\ row_idx = 1
    /\ vpin_idx = 0
    /\ latest_vpin = None
    /\ latest_illiq = None
    /\ inventory_exposure = None
    /\ results = <<>>
    /\ merged = None

\* ---------------------------------------------------------- calculate_vpin

\* a frame that keeps every row of the file
NonZeroRows_All(t) == t

\* df = df[df['tradevolume'] != 0].reset_index(drop=True)
NonZeroRows(t) == SelectSeq(t, LAMBDA r : r.tradevolume # 0)

\* bucket_size = avg_daily_volume / 50; the mean of no day at all is NaN
BucketSize(rows, adv) ==
    IF rows = <<>> THEN None ELSE RDiv(adv, R(BucketsPerDay))

\* lines 21-48: read, filter, size the bucket
VpinLoad ==
    /\ pc = "vpin_load"
    /\ df' = NonZeroRows(tape)
    /\ bucket_size' = BucketSize(NonZeroRows(tape), avg_daily_volume)
    /\ pc' = "vpin_loop"
    /\ UNCHANGED <<tape, avg_daily_volume, current_bucket_abs_volume,
                   current_bucket_net_volume, bucket_imbalances_map,
                   bucket_details, idx, remaining_volume, remaining_net_volume,
                   fragments, current_bucket_lines, bucket_lines, vpin_file,
                   feeVars>>

\* lines 51-57: the for loop takes the next trade
VpinNextTrade ==
    /\ pc = "vpin_loop"
    /\ idx <= Len(df)
    /\ remaining_volume' = R(Abs(df[idx].tradevolume))
    /\ remaining_net_volume' = R(df[idx].tradevolume)
    /\ fragments' = <<>>
    /\ pc' = "vpin_fill"
    /\ UNCHANGED <<tape, avg_daily_volume, df, bucket_size,
                   current_bucket_abs_volume, current_bucket_net_volume,
                   bucket_imbalances_map, bucket_details, idx,
                   current_bucket_lines, bucket_lines, vpin_file, feeVars>>

\* a fill that pours the whole remainder into the open bucket
VolumeToAdd_NoCap(remaining, needed) == remaining

\* a fill that always takes the room left in the open bucket
VolumeToAdd_Room(remaining, needed) == needed

\* volume_to_add = min(remaining_volume, volume_needed_for_bucket)
VolumeToAdd(remaining, needed) == RMin(remaining, needed)

\* a fill that carries the whole signed remainder whatever it takes
NetVolumeToAdd_Whole(remaining_net, volume_to_add, abs_trade_volume) ==
    remaining_net

\* net_volume_to_add = remaining_net_volume * (volume_to_add / abs_trade_volume)
NetVolumeToAdd(remaining_net, volume_to_add, abs_trade_volume) ==
    RMul(remaining_net, RDiv(volume_to_add, abs_trade_volume))

\* order_imbalance = abs(current_bucket_net_volume) / bucket_size
OrderImbalance(net, size) == RDiv(RAbs(net), size)

\* a window that is never trimmed
PushImbalance_NoEvict(imbalances, order_imbalance, sample_length) ==
    Append(imbalances, order_imbalance)

\* a window trimmed at its newest end: pop() for pop(0)
PushImbalance_PopLast(imbalances, order_imbalance, sample_length) ==
    LET pushed == Append(imbalances, order_imbalance)
    IN  IF Len(pushed) > sample_length
        THEN SubSeq(pushed, 1, Len(pushed) - 1)
        ELSE pushed

\* imbalances.append(order_imbalance); pop(0) when longer than the window
PushImbalance(imbalances, order_imbalance, sample_length) ==
    LET pushed == Append(imbalances, order_imbalance)
    IN  IF Len(pushed) > sample_length THEN Tail(pushed) ELSE pushed

PushAll(map, order_imbalance) ==
    [key \in WindowKeys |->
        PushImbalance(map[key], order_imbalance, sample_lengths[key])]

\* bucket numbers counted from one
BucketNumber_FromOne(details) == Len(details) + 1

\* 'bucket_number': len(bucket_details)
BucketNumber(details) == Len(details)

\* the record appended to bucket_details; map is the windows after the push
Details(trade_index, timestamp, start, abs_volume, net_volume, size, map, number) ==
    [trade_index |-> trade_index,
     timestamp |-> timestamp,
     bucket_start_trade |-> start,
     bucket_abs_volume |-> abs_volume,
     bucket_net_volume |-> net_volume,
     order_imbalance |-> OrderImbalance(net_volume, size),
     bucket_number |-> number,
     vpin_daily |-> Mean(map["vpin_daily"]),
     vpin_5day |-> Mean(map["vpin_5day"]),
     vpin_7day |-> Mean(map["vpin_7day"])]

\* a bucket that closes only once it holds more than bucket_size
BucketFull_Strict(abs_volume, size) == RLess(size, abs_volume)

\* if current_bucket_abs_volume >= bucket_size
BucketFull(abs_volume, size) == RLeq(size, abs_volume)

\* lines 59-105: one iteration of the while loop over the trade in hand
VpinFill ==
    /\ pc = "vpin_fill"
    /\ RLess(Zero, remaining_volume)
    /\ Len(fragments) < MaxFragments
    /\ LET row == df[idx]
           abs_trade_volume == R(Abs(row.tradevolume))
           volume_needed_for_bucket == RSub(bucket_size, current_bucket_abs_volume)
           volume_to_add == VolumeToAdd(remaining_volume, volume_needed_for_bucket)
           net_volume_to_add ==
               NetVolumeToAdd(remaining_net_volume, volume_to_add, abs_trade_volume)
           abs_volume == RAdd(current_bucket_abs_volume, volume_to_add)
           net_volume == RAdd(current_bucket_net_volume, net_volume_to_add)
           remaining == RSub(remaining_volume, volume_to_add)
           full == BucketFull(abs_volume, bucket_size)
           map == PushAll(bucket_imbalances_map,
                          OrderImbalance(net_volume, bucket_size))
       IN  /\ remaining_volume' = remaining
           /\ remaining_net_volume' = RSub(remaining_net_volume, net_volume_to_add)
           /\ fragments' = Append(fragments,
                  [volume_to_add |-> volume_to_add,
                   net_volume_to_add |-> net_volume_to_add])
           /\ IF full
              THEN /\ bucket_imbalances_map' = map
                   /\ bucket_details' = Append(bucket_details,
                          Details(idx - 1, row.timestamp,
                                  (idx - 1) - Len(bucket_details),
                                  abs_volume, net_volume, bucket_size, map,
                                  BucketNumber(bucket_details)))
                   /\ current_bucket_abs_volume' = Zero
                   /\ current_bucket_net_volume' = Zero
                   /\ bucket_lines' = Append(bucket_lines,
                          current_bucket_lines \cup {row.line})
                   /\ current_bucket_lines' = {}
              ELSE /\ current_bucket_abs_volume' = abs_volume
                   /\ current_bucket_net_volume' = net_volume
                   /\ current_bucket_lines' = current_bucket_lines \cup {row.line}
                   /\ UNCHANGED <<bucket_imbalances_map, bucket_details, bucket_lines>>
           /\ IF RLess(Zero, remaining)
              THEN pc' = "vpin_fill" /\ idx' = idx
              ELSE pc' = "vpin_loop" /\ idx' = idx + 1
    /\ UNCHANGED <<tape, avg_daily_volume, df, bucket_size, vpin_file, feeVars>>

\* a run that drops what the open bucket holds after the last trade
TrailingBucket_Dropped(abs_volume) == FALSE

\* line 108: if current_bucket_abs_volume > 0
TrailingBucket(abs_volume) == RLess(Zero, abs_volume)

\* windows that the trailing bucket leaves as they were
PushTrailing_Unpushed(map, order_imbalance) == map

\* lines 113-117: the trailing bucket's imbalance goes into every window,
\* trimmed as after a full bucket
PushTrailing(map, order_imbalance) ==
    [key \in WindowKeys |->
        PushImbalance(map[key], order_imbalance, sample_lengths[key])]

\* a summary that prints whatever the frame holds
SummaryFails_Never(details) == FALSE

\* line 138: vpin_df['order_imbalance'] of a frame built from no record is
\* a KeyError
SummaryFails(details) == details = <<>>

\* lines 107-155: the trailing bucket, the summary and the CSV.  The summary
\* reads vpin_df['order_imbalance'], a KeyError when no bucket was emitted.
VpinFinal ==
    /\ pc = "vpin_loop"
    /\ idx > Len(df)
    /\ LET flush == TrailingBucket(current_bucket_abs_volume)
           map == PushTrailing(bucket_imbalances_map,
                      OrderImbalance(current_bucket_net_volume, bucket_size))
           details ==
               IF flush
               THEN Append(bucket_details,
                        Details(Len(df) - 1, df[Len(df)].timestamp, Len(df) - 1,
                                current_bucket_abs_volume,
                                current_bucket_net_volume, bucket_size, map,
                                BucketNumber(bucket_details)))
               ELSE bucket_details
       IN  /\ bucket_details' = details
           /\ bucket_imbalances_map' = IF flush THEN map ELSE bucket_imbalances_map
           /\ bucket_lines' = IF flush THEN Append(bucket_lines, current_bucket_lines)
                                       ELSE bucket_lines
           /\ IF SummaryFails(details)
              THEN pc' = "vpin_error" /\ vpin_file' = None
              ELSE pc' = "vpin_done" /\ vpin_file' = details
    /\ UNCHANGED <<tape, avg_daily_volume, df, bucket_size,
                   current_bucket_abs_volume, current_bucket_net_volume, idx,
                   remaining_volume, remaining_net_volume, fragments,
                   current_bucket_lines, feeVars>>

\* ------------------------------------------------- FeeCalculationSimulator

\* the insertion sort that numpy's quicksort applies to a short array: rows
\* of equal timestamp keep their order
RECURSIVE InsertByTimestamp(_, _)
InsertByTimestamp(sorted, r) ==
    IF sorted = <<>> THEN <<r>>
    ELSE IF sorted[Len(sorted)].timestamp <= r.timestamp THEN Append(sorted, r)
    ELSE Append(InsertByTimestamp(SubSeq(sorted, 1, Len(sorted) - 1), r),
                sorted[Len(sorted)])

RECURSIVE SortByTimestamp(_)
SortByTimestamp(rows) ==
    IF rows = <<>> THEN <<>>
    ELSE InsertByTimestamp(SortByTimestamp(SubSeq(rows, 1, Len(rows) - 1)),
                           rows[Len(rows)])

\* rows without the one at position i
RemoveAt(rows, i) == SubSeq(rows, 1, i - 1) \o SubSeq(rows, i + 1, Len(rows))

\* every arrangement of the rows in ascending timestamp
RECURSIVE TieOrders(_)
TieOrders(rows) ==
    IF rows = <<>> THEN {<<>>}
    ELSE LET earliest ==
                 {i \in 1..Len(rows) :
                     \A j \in 1..Len(rows) : rows[i].timestamp <= rows[j].timestamp}
         IN  UNION {{<<rows[i]>> \o rest : rest \in TieOrders(RemoveAt(rows, i))} :
                       i \in earliest}

\* sort_values('timestamp').reset_index(drop=True) with the default kind,
\* quicksort, which is not stable.  numpy sorts a range with last - first <=
\* 16 by insertion; a longer array is partitioned first, and rows of equal
\* timestamp may then come out in any order.
SortOutcomes(rows) ==
    IF Len(rows) - 1 <= SmallQuicksort THEN {SortByTimestamp(rows)}
    ELSE TieOrders(rows)

\* calculate_token_amounts_at_price(price, position_params)['inventory_exposure']
InventoryExposure(price, params) ==
    LET sqrt_price == R(Sqrt(price))
        p == R(price)
        spread == RSub(params.sqrt_upper, params.sqrt_lower)
        token0 ==
            IF RLeq(p, params.lower_price)
            THEN RDiv(RMul(params.liquidity, spread),
                      RMul(params.sqrt_lower, params.sqrt_upper))
            ELSE IF RLeq(params.upper_price, p) THEN Zero
            ELSE RDiv(RMul(params.liquidity, RSub(params.sqrt_upper, sqrt_price)),
                      RMul(sqrt_price, params.sqrt_upper))
        token1 ==
            IF RLeq(p, params.lower_price) THEN Zero
            ELSE IF RLeq(params.upper_price, p) THEN RMul(params.liquidity, spread)
            ELSE RMul(params.liquidity, RSub(sqrt_price, params.sqrt_lower))
        total_value == RAdd(RMul(token0, p), token1)
    IN  IF RLess(Zero, total_value) THEN RDiv(RMul(token0, p), total_value) ELSE Zero

\* __init__ (load_data, load_vpin_data) and lines 328-350 of
\* calculate_fees_with_vpin_full_timeseries; without a VPIN file the scan
\* returns an empty frame
FeeLoad ==
    /\ pc \in {"vpin_done", "vpin_error"}
    /\ data' \in SortOutcomes(tape)
    /\ vpin_data' \in (IF vpin_file = None THEN {None} ELSE SortOutcomes(vpin_file))
    /\ results' = <<>>
    /\ vpin_idx' = 0
    /\ latest_vpin' = IF vpin_file = None THEN None ELSE vpin_data'[1][vpin_type]
    /\ latest_illiq' = None
    /\ row_idx' = 1
    /\ pc' = IF vpin_file = None THEN "done" ELSE "fee_loop"
    /\ UNCHANGED <<tape, vpinVars, inventory_exposure, merged>>

\* while vpin_idx + 1 < n_vpin and vpin_timestamps[vpin_idx + 1] <= timestamp
RECURSIVE AdvanceCursor(_, _, _)
AdvanceCursor(cursor, timestamp, buckets) ==
    IF cursor + 1 < Len(buckets) /\ buckets[cursor + 2].timestamp <= timestamp
    THEN AdvanceCursor(cursor + 1, timestamp, buckets)
    ELSE cursor

\* a cursor that only rows with volume move
CursorAfter_Traded(cursor, row, buckets) ==
    IF row.tradevolume = 0 THEN cursor
    ELSE AdvanceCursor(cursor, row.timestamp, buckets)

\* lines 355-361: the cursor after the row, whatever the row's volume
CursorAfter(cursor, row, buckets) ==
    AdvanceCursor(cursor, row.timestamp, buckets)

\* current_illiq: NaN and 0.0 count as no observation
CurrentIlliq(row) ==
    IF row.ILLIQ = None \/ row.ILLIQ = Zero THEN None ELSE row.ILLIQ

\* pricing after the update: the row's own observation, when it has one
IlliqUsed_Current(latest, current) == IF current # None THEN current ELSE latest

\* the impact value that prices the row: latest_illiq as it stands on entry
IlliqUsed(latest, current) == latest

\* the impact scaled by a thousand where the code scales by a million
EstimatedPriceImpact_PerThousand(illiq, abs_trade_volume) ==
    IF RLess(Zero, abs_trade_volume) /\ illiq # None
    THEN RDiv(RMul(illiq, abs_trade_volume), R(1000))
    ELSE Zero

\* (latest_illiq * abs_trade_volume) / 1_000_000, 0.0 without a prior ILLIQ
\* or without volume
EstimatedPriceImpact(illiq, abs_trade_volume) ==
    IF RLess(Zero, abs_trade_volume) /\ illiq # None
    THEN RDiv(RMul(illiq, abs_trade_volume), R(1000000))
    ELSE Zero

\* latest_illiq after the row
NextIlliq(latest, current) ==
    IF current # None THEN current ELSE latest

\* a value that stays with the first bucket while the cursor moves on
VpinAtTime_First(cursor, moved, latest, buckets) == latest

\* vpin_at_time after the cursor has moved
VpinAtTime(cursor, moved, latest, buckets) ==
    IF moved = cursor THEN latest ELSE buckets[moved + 1][vpin_type]

\* a percentage that falls back to the base rate on a row without volume
FeePct_BaseRate(total_fee, abs_trade_volume) ==
    IF RLess(Zero, abs_trade_volume) THEN RDiv(total_fee, abs_trade_volume)
    ELSE RDiv(base_fee_pct, R(100))

\* fee_pct = (total_fee / abs_trade_volume) if abs_trade_volume > 0 else 0.0
FeePct(total_fee, abs_trade_volume) ==
    IF RLess(Zero, abs_trade_volume) THEN RDiv(total_fee, abs_trade_volume)
    ELSE Zero

\* lines 364-429: the row appended to results; exposure is inventory_exposure
\* as line 428 reads it
FeeRow(row, vpin_at_time, illiq, exposure) ==
    LET abs_trade_volume == R(Abs(row.tradevolume))
        traded == RLess(Zero, abs_trade_volume)
        estimated_price_impact == EstimatedPriceImpact(illiq, abs_trade_volume)
        expected_impermanent_loss ==
            IF traded /\ illiq # None
            THEN RMul(estimated_price_impact, exposure)
            ELSE Zero
        base_fee ==
            IF traded THEN RMul(RDiv(base_fee_pct, R(100)), abs_trade_volume)
            ELSE Zero
        vpin_fee_pct_of_volume ==
            IF vpin_at_time # None
            THEN RMul(expected_impermanent_loss, vpin_at_time)
            ELSE Zero
        vpin_fee_absolute ==
            IF traded THEN RMul(vpin_fee_pct_of_volume, abs_trade_volume) ELSE Zero
        total_fee == RAdd(base_fee, vpin_fee_absolute)
    IN  [line |-> row.line,
         timestamp |-> row.timestamp,
         price |-> row.price,
         trade_volume |-> row.tradevolume,
         abs_trade_volume |-> abs_trade_volume,
         ILLIQ |-> CurrentIlliq(row),
         vpin_used |-> vpin_at_time,
         estimated_price_impact |-> estimated_price_impact,
         expected_impermanent_loss |-> expected_impermanent_loss,
         base_fee |-> base_fee,
         vpin_fee_pct_of_volume |-> vpin_fee_pct_of_volume,
         vpin_fee_absolute |-> vpin_fee_absolute,
         total_fee |-> total_fee,
         fee_pct_of_volume |-> FeePct(total_fee, abs_trade_volume),
         inventory_exposure |-> exposure]

\* inventory_exposure is assigned only under abs_trade_volume > 0 (line 374)
ExposureAfter(row, exposure) ==
    IF row.tradevolume # 0 THEN InventoryExposure(row.price, position_params)
    ELSE exposure

\* lines 352-429: one row of the scan
FeeStep ==
    /\ pc = "fee_loop"
    /\ row_idx <= Len(data)
    /\ LET row == data[row_idx]
           moved == CursorAfter(vpin_idx, row, vpin_data)
           vpin_at_time == VpinAtTime(vpin_idx, moved, latest_vpin, vpin_data)
           exposure == ExposureAfter(row, inventory_exposure)
       IN  /\ exposure # None
           /\ vpin_idx' = moved
           /\ latest_vpin' = vpin_at_time
           /\ inventory_exposure' = exposure
           /\ latest_illiq' = NextIlliq(latest_illiq, CurrentIlliq(row))
           /\ results' = Append(results,
                  FeeRow(row, vpin_at_time,
                         IlliqUsed(latest_illiq, CurrentIlliq(row)), exposure))
           /\ row_idx' = row_idx + 1
           /\ pc' = "fee_loop"
    /\ UNCHANGED <<tape, vpinVars, data, vpin_data, merged>>

\* line 428 on a zero-volume row before any row with volume: inventory_exposure
\* is unbound and the scan ends in UnboundLocalError, returning nothing
FeeCrash ==
    /\ pc = "fee_loop"
    /\ row_idx <= Len(data)
    /\ LET row == data[row_idx]
           moved == CursorAfter(vpin_idx, row, vpin_data)
       IN  /\ ExposureAfter(row, inventory_exposure) = None
           /\ vpin_idx' = moved
           /\ latest_vpin' = VpinAtTime(vpin_idx, moved, latest_vpin, vpin_data)
           /\ latest_illiq' = NextIlliq(latest_illiq, CurrentIlliq(row))
           /\ pc' = "fee_error"
    /\ UNCHANGED <<tape, vpinVars, data, vpin_data, row_idx, inventory_exposure,
                   results, merged>>

\* lines 430-432: the frame is returned
FeeDone ==
    /\ pc = "fee_loop"
    /\ row_idx > Len(data)
    /\ pc' = "done"
    /\ UNCHANGED <<tape, vpinVars, feeVars>>

\* latest_illiq after the first n rows
RECURSIVE IlliqAfter(_, _)
IlliqAfter(rows, n) ==
    IF n = 0 THEN None
    ELSE NextIlliq(IlliqAfter(rows, n - 1), CurrentIlliq(rows[n]))

\* lines 442-479: the position record of row i of self.data
PositionRecord(rows, i) ==
    [line |-> rows[i].line,
     timestamp |-> rows[i].timestamp,
     price |-> rows[i].price,
     inventory_exposure |-> InventoryExposure(rows[i].price, position_params),
     estimated_price_impact |->
         EstimatedPriceImpact(IlliqAfter(rows, i - 1), R(Abs(rows[i].tradevolume)))]

\* a merged row; inventory_exposure_fee is dropped (lines 486-488)
MergedRow(pos, fee) ==
    [timestamp |-> pos.timestamp,
     price |-> pos.price,
     line_pos |-> pos.line,
     line_fee |-> fee.line,
     inventory_exposure_pos |-> pos.inventory_exposure,
     estimated_price_impact_pos |-> pos.estimated_price_impact,
     estimated_price_impact_fee |-> fee.estimated_price_impact,
     trade_volume |-> fee.trade_volume,
     vpin_used |-> fee.vpin_used,
     base_fee |-> fee.base_fee,
     vpin_fee_absolute |-> fee.vpin_fee_absolute,
     total_fee |-> fee.total_fee]

\* the fee rows that share timestamp and price with the position record
MatchesOf(pos, fee_df) ==
    LET found == SelectSeq(fee_df, LAMBDA f : f.timestamp = pos.timestamp
                                              /\ f.price = pos.price)
    IN  [j \in 1..Len(found) |-> MergedRow(pos, found[j])]

\* pd.merge(pos_df, fee_df, on=['timestamp', 'price']): an inner join, every
\* pair of rows with equal keys, in the order of the left frame
RECURSIVE Merge(_, _, _)
Merge(pos_df, fee_df, i) ==
    IF i > Len(pos_df) THEN <<>>
    ELSE MatchesOf(pos_df[i], fee_df) \o Merge(pos_df, fee_df, i + 1)

\* combine_position_and_fee_timeseries (lines 434-498) on the frames of the
\* finished scan; without a VPIN file fee_df has no column to merge on
\* (KeyError)
Combine ==
    /\ pc = "done"
    /\ IF vpin_data = None
       THEN pc' = "combine_error" /\ merged' = None
       ELSE /\ pc' = "combined"
            /\ merged' = Merge([i \in 1..Len(data) |-> PositionRecord(data, i)],
                               results, 1)
    /\ UNCHANGED <<tape, vpinVars, data, vpin_data, row_idx, vpin_idx,
                   latest_vpin, latest_illiq, inventory_exposure, results>>

\* ---------------------------------------------------------- specifications

Next ==
    \/ VpinLoad
    \/ VpinNextTrade
    \/ VpinFill
    \/ VpinFinal
    \/ FeeLoad
    \/ FeeStep
    \/ FeeCrash
    \/ FeeDone
    \/ Combine

\* bucketing runs: tapes of signed volumes, no impact observations
InitVpin ==
    \E t \in Tapes(Volumes, {None}, {16}, Gaps, MaxTrades), adv \in AvgDailyVolumes :
        InitOn(t, adv)

SpecVpin == InitVpin /\ [][Next]_vars

\* calculate_vpin run on its own
NextVpin ==
    \/ VpinLoad
    \/ VpinNextTrade
    \/ VpinFill
    \/ VpinFinal

\* bucketing runs long enough to fill and roll all three windows
InitWindows ==
    \E pattern \in LongPatterns : InitOn(LongTape(pattern, LongTrades), R(1000))

SpecWindows == InitWindows /\ [][NextVpin]_vars

\* bucketing runs that roll all three windows and may end on a part-filled
\* bucket
InitTrailing ==
    \E pattern \in LongPatterns :
        InitOn(LongTape(pattern, LongTrades - 1), R(1000))

SpecTrailing == InitTrailing /\ [][NextVpin]_vars

\* bucketing runs with bucket sizes 0, infinity and NaN among them
InitDegenerate ==
    \E t \in Tapes(Volumes, {None}, {16}, {1}, MaxTrades),
       adv \in DegenerateAvgDailyVolumes :
        InitOn(t, adv)

SpecDegenerate == InitDegenerate /\ [][NextVpin]_vars

\* fee runs: every row priced from the impact observations before it
Init ==
    \E t \in Tapes(FeeVolumes, Illiqs, {16}, {1}, MaxRows) :
        InitOn(t, R(2500))

Spec == Init /\ [][Next]_vars

\* fee runs: rows that share timestamps, buckets of both sizes
InitCausal ==
    \E t \in Tapes(FeeVolumes, {None, R(1000000)}, {16}, Gaps, MaxRows),
       adv \in AvgDailyVolumes :
        InitOn(t, adv)

SpecCausal == InitCausal /\ [][Next]_vars

\* both passes over tapes that load_data's sort partitions, at most one pair
\* of rows sharing a timestamp
InitOrder ==
    \E pattern \in OrderPatterns, k \in 0..(OrderTrades - 1) :
        InitOn(OrderTape(pattern, OrderTrades, k), R(2500))

SpecOrder == InitOrder /\ [][Next]_vars

\* fee runs of the worked fee scenario, ILLIQ cells of every kind
InitScenario ==
    \E t \in Tapes(ScenarioVolumes, ScenarioIlliqs, {16}, {1}, MaxRows) :
        InitOn(t, R(2500))

SpecScenario == InitScenario /\ [][Next]_vars

\* fee runs over tapes whose rows differ in price
InitExposure ==
    \E t \in Tapes(FeeVolumes, {None}, Prices, {1}, MaxRows) :
        InitOn(t, R(2500))

SpecExposure == InitExposure /\ [][Next]_vars

\* ------------------------------------------------------- bucketing claims

RECURSIVE SumTakes(_)
SumTakes(f) == IF f = <<>> THEN Zero ELSE RAdd(f[1].volume_to_add, SumTakes(Tail(f)))

RECURSIVE SumNet(_)
SumNet(f) == IF f = <<>> THEN Zero ELSE RAdd(f[1].net_volume_to_add, SumNet(Tail(f)))

TapeVolumes == [i \in 1..Len(tape) |-> tape[i].tradevolume]

\* the for loop stands between two trades: the trade df[idx - 1] is finished
TradeFinished == pc = "vpin_loop" /\ idx > 1

\* C1: every emitted bucket except possibly the last one holds exactly
\* bucket_size; while trades are still streaming every emitted bucket does.
C1_BucketsCloseAtThreshold ==
    \A k \in 1..Len(bucket_details) :
        (k < Len(bucket_details) \/ pc \in {"vpin_loop", "vpin_fill"})
            => bucket_details[k].bucket_abs_volume = bucket_size

\* a finished run in which one trade closed two buckets in a row and left a
\* partial last bucket
C1_Witness ==
    /\ pc = "vpin_done"
    /\ Len(bucket_details) >= 3
    /\ bucket_details[Len(bucket_details)].bucket_abs_volume # bucket_size
    /\ \E k \in 1..(Len(bucket_details) - 2) :
           bucket_details[k].trade_index = bucket_details[k + 1].trade_index

\* C2: the net-volume fragments of a finished trade sum to its signed volume,
\* each being the signed volume times (volume_to_add / abs_trade_volume).
C2_NetFragmentsProRata ==
    TradeFinished =>
        LET signed == R(df[idx - 1].tradevolume)
            abs_trade_volume == R(Abs(df[idx - 1].tradevolume))
        IN  /\ SumNet(fragments) = signed
            /\ \A j \in 1..Len(fragments) :
                   fragments[j].net_volume_to_add =
                       RMul(signed, RDiv(fragments[j].volume_to_add, abs_trade_volume))

\* C3: the amounts taken from a finished trade sum to its absolute volume and
\* nothing of it remains.
C3_TakesSumToTradeVolume ==
    TradeFinished =>
        /\ SumTakes(fragments) = R(Abs(df[idx - 1].tradevolume))
        /\ remaining_volume = Zero

\* a finished trade that was spread over three buckets or more
C3_Witness == TradeFinished /\ Len(fragments) >= 3

\* C4: the tape [+30, -20, +60] with bucket size 50 yields the buckets
\* (50, 10, 0.2), (50, 50, 1.0) and a last partial (10, 10, 0.2).
C4_ScenarioBuckets ==
    (pc = "vpin_done" /\ TapeVolumes = <<30, -20, 60>> /\ bucket_size = R(50)) =>
        /\ Len(bucket_details) = 3
        /\ bucket_details[1].bucket_abs_volume = R(50)
        /\ bucket_details[1].bucket_net_volume = R(10)
        /\ bucket_details[1].order_imbalance = <<1, 5>>
        /\ bucket_details[2].bucket_abs_volume = R(50)
        /\ bucket_details[2].bucket_net_volume = R(50)
        /\ bucket_details[2].order_imbalance = R(1)
        /\ bucket_details[3].bucket_abs_volume = R(10)
        /\ bucket_details[3].bucket_net_volume = R(10)
        /\ bucket_details[3].order_imbalance = <<1, 5>>

\* ------------------------------------------------------------- fee claims

\* the last ILLIQ cell among rows[1..n] that is neither missing nor zero
RECURSIVE LastValidIlliq(_, _)
LastValidIlliq(rows, n) ==
    IF n = 0 THEN None
    ELSE IF rows[n].ILLIQ # None /\ rows[n].ILLIQ # Zero THEN rows[n].ILLIQ
    ELSE LastValidIlliq(rows, n - 1)

\* FeeStep has just priced data[row_idx]
RowPriced == pc = "fee_loop" /\ pc' = "fee_loop" /\ row_idx' = row_idx + 1

\* the buckets of vpin_data that closed at or before the timestamp
ClosedBy(timestamp) ==
    {k \in 1..Len(vpin_data) : vpin_data[k].timestamp <= timestamp}

Latest(S) == CHOOSE k \in S : \A j \in S : j <= k

\* C5: a row's estimated price impact comes from the last valid ILLIQ of the
\* rows strictly before it (0 when there is none), never from its own cell,
\* and its expected IL and fees are built on that impact.
C5_ImpactFromEarlierRows ==
    \A i \in 1..Len(results) :
        LET prior == LastValidIlliq(data, i - 1)
            abs_trade_volume == R(Abs(data[i].tradevolume))
            impact == IF data[i].tradevolume # 0 /\ prior # None
                      THEN RDiv(RMul(prior, abs_trade_volume), R(1000000))
                      ELSE Zero
            loss == RMul(impact, results[i].inventory_exposure)
        IN  /\ results[i].estimated_price_impact = impact
            /\ results[i].expected_impermanent_loss = loss
            /\ results[i].vpin_fee_pct_of_volume = RMul(loss, results[i].vpin_used)
            /\ results[i].total_fee =
                   RAdd(results[i].base_fee,
                        RMul(RMul(loss, results[i].vpin_used), abs_trade_volume))

\* a priced row with volume whose own valid ILLIQ differs from the prior one
C5_Witness ==
    \E i \in 2..Len(results) :
        /\ data[i].tradevolume # 0
        /\ LastValidIlliq(data, i - 1) # None
        /\ LastValidIlliq(data, i) # LastValidIlliq(data, i - 1)

\* C6: vpin_used is the value of the latest bucket that closed at or before
\* the row's timestamp, and no value when no bucket has closed by then.
C6_ToxicityFromClosedBucket ==
    \A i \in 1..Len(results) :
        LET closed == ClosedBy(results[i].timestamp)
        IN  results[i].vpin_used =
                IF closed = {} THEN None ELSE vpin_data[Latest(closed)][vpin_type]

\* C7: a row earlier than the first bucket's closing timestamp pays no
\* toxicity fee: fraction and amount are 0 and the total fee is the base fee.
C7_NoToxicityFeeBeforeFirstBucket ==
    \A i \in 1..Len(results) :
        results[i].timestamp < vpin_data[1].timestamp =>
            /\ results[i].vpin_fee_pct_of_volume = Zero
            /\ results[i].vpin_fee_absolute = Zero
            /\ results[i].total_fee = results[i].base_fee

\* C8: a row whose volume went into bucket k (numbered from 1) is priced with
\* the cursor on a bucket before k.
C8_NoToxicityFromOwnBucket ==
    [][RowPriced =>
          \A k \in 1..Len(bucket_lines) :
              data[row_idx].line \in bucket_lines[k] => vpin_idx' + 1 < k]_vars

\* C9: pricing a zero-volume row leaves latest_illiq as it was.
C9_ZeroVolumeKeepsImpact ==
    [][(RowPriced /\ data[row_idx].tradevolume = 0) =>
          latest_illiq' = latest_illiq]_vars

C11_CursorFollowsTime ==
    (pc \in {"fee_loop", "done"} /\ row_idx > 1) =>
        LET closed == ClosedBy(data[row_idx - 1].timestamp)
        IN  vpin_idx + 1 = IF closed = {} THEN 1 ELSE Latest(closed)

\* the row just processed has no volume and moved the cursor
C11_Witness ==
    /\ pc = "fee_loop"
    /\ row_idx > 2
    /\ data[row_idx - 1].tradevolume = 0
    /\ vpin_idx > 0
    /\ vpin_data[vpin_idx + 1].timestamp > data[row_idx - 2].timestamp
    /\ row_idx <= Len(data)
    /\ data[row_idx].tradevolume # 0

\* an ILLIQ cell that is missing, exactly zero, or not finite
InvalidObservation(cell) == cell = None \/ cell = Zero \/ cell[2] = 0

\* C12: a row whose ILLIQ cell is missing, zero or not finite leaves
\* latest_illiq as it was.
C12_InvalidObservationIgnored ==
    [][(RowPriced /\ InvalidObservation(data[row_idx].ILLIQ)) =>
          latest_illiq' = latest_illiq]_vars

\* C13: a row with volume is priced as estimated impact = latest_illiq *
\* abs_volume / 1,000,000 (0 without a prior impact), expected IL = impact *
\* inventory exposure at the row's price, fee fraction = expected IL *
\* toxicity, base fee = (base_fee_pct / 100) * abs_volume, total = base +
\* fraction * abs_volume, percentage = total / abs_volume; impact 1,000,000,
\* volume 10, exposure 0.4, toxicity 0.3 and base rate 0.05% give 12.005.
C13_FeeFormulas ==
    [][(RowPriced /\ data[row_idx].tradevolume # 0) =>
          LET row == data[row_idx]
              r == results'[Len(results')]
              abs_volume == R(Abs(row.tradevolume))
              exposure == InventoryExposure(row.price, position_params)
              toxicity == IF r.vpin_used = None THEN Zero ELSE r.vpin_used
              impact ==
                  IF latest_illiq = None THEN Zero
                  ELSE RDiv(RMul(latest_illiq, abs_volume), R(1000000))
          IN  /\ r.estimated_price_impact = impact
              /\ r.expected_impermanent_loss = RMul(impact, exposure)
              /\ r.vpin_fee_pct_of_volume =
                     RMul(r.expected_impermanent_loss, toxicity)
              /\ r.base_fee = RMul(RDiv(base_fee_pct, R(100)), abs_volume)
              /\ r.total_fee =
                     RAdd(r.base_fee, RMul(r.vpin_fee_pct_of_volume, abs_volume))
              /\ r.fee_pct_of_volume = RDiv(r.total_fee, abs_volume)
              /\ (/\ latest_illiq = R(1000000)
                  /\ abs_volume = R(10)
                  /\ exposure = <<2, 5>>
                  /\ r.vpin_used = <<3, 10>>
                  /\ base_fee_pct = <<1, 20>>) => r.total_fee = <<2401, 200>>]_vars

\* the worked scenario has been priced: volume 10 after an impact reading of
\* 1,000,000, exposure 0.4, toxicity 0.3
C13_Witness ==
    \E i \in 2..Len(results) :
        /\ results[i].abs_trade_volume = R(10)
        /\ LastValidIlliq(data, i - 1) = R(1000000)
        /\ results[i].inventory_exposure = <<2, 5>>
        /\ results[i].vpin_used = <<3, 10>>
        /\ results[i].estimated_price_impact = R(10)
        /\ results[i].total_fee # Zero

\* ---------------------------------------------------------- window claims

\* C14: the daily, 5-day and 7-day windows never hold more than 50, 250 and
\* 350 imbalances.
C14_WindowsBounded ==
    /\ Len(bucket_imbalances_map["vpin_daily"]) <= 50
    /\ Len(bucket_imbalances_map["vpin_5day"]) <= 250
    /\ Len(bucket_imbalances_map["vpin_7day"]) <= 350

\* more buckets than the longest window holds, and every window full
C14_Witness ==
    /\ Len(bucket_details) > 350
    /\ Len(bucket_imbalances_map["vpin_daily"]) = 50
    /\ Len(bucket_imbalances_map["vpin_5day"]) = 250
    /\ Len(bucket_imbalances_map["vpin_7day"]) = 350

\* the imbalances of buckets from..to, oldest first
ImbalancesOf(from, to) ==
    [j \in 1..(to - from + 1) |-> bucket_details[from + j - 1].order_imbalance]

\* the imbalances of the last min(k, n) of the first k buckets
RecentImbalances(k, n) == ImbalancesOf(IF k > n THEN k - n + 1 ELSE 1, k)

\* C15: with k buckets emitted, the window of length N holds the imbalances
\* of the most recent min(k, N) buckets, oldest first, and bucket k reports
\* their mean as its toxicity.
C15_ToxicityIsWindowMean ==
    bucket_details # <<>> =>
        LET k == Len(bucket_details)
        IN  \A key \in WindowKeys :
                LET recent == RecentImbalances(k, sample_lengths[key])
                IN  /\ bucket_imbalances_map[key] = recent
                    /\ bucket_details[k][key] = Mean(recent)

\* bucket 352 has been emitted: the 7-day window has dropped the oldest
\* imbalance, which differs from the one that is now its oldest
C15_Witness ==
    /\ Len(bucket_details) > 351
    /\ bucket_details[1].order_imbalance # bucket_details[2].order_imbalance
    /\ bucket_details[Len(bucket_details)].vpin_daily
           # bucket_details[Len(bucket_details)].vpin_7day

\* C16: every emitted bucket has order_imbalance = |net| / bucket_size within
\* [0, 1], and |net| <= abs_volume <= bucket_size holds for every emitted
\* bucket and for the open bucket in every state.
C16_ImbalanceWithinUnit ==
    bucket_size # None =>
        /\ RLeq(RAbs(current_bucket_net_volume), current_bucket_abs_volume)
        /\ RLeq(current_bucket_abs_volume, bucket_size)
        /\ \A k \in 1..Len(bucket_details) :
               LET b == bucket_details[k]
               IN  /\ b.order_imbalance = RDiv(RAbs(b.bucket_net_volume), bucket_size)
                   /\ RLeq(Zero, b.order_imbalance)
                   /\ RLeq(b.order_imbalance, R(1))
                   /\ RLeq(RAbs(b.bucket_net_volume), b.bucket_abs_volume)
                   /\ RLeq(b.bucket_abs_volume, bucket_size)

\* a bucket of mixed flow strictly inside (0, 1), a bucket at 1, and an open
\* bucket that holds both buys and sells
C16_Witness ==
    /\ \E k \in 1..Len(bucket_details) :
           /\ RLess(Zero, bucket_details[k].order_imbalance)
           /\ RLess(bucket_details[k].order_imbalance, R(1))
    /\ \E k \in 1..Len(bucket_details) : bucket_details[k].order_imbalance = R(1)
    /\ RLess(RAbs(current_bucket_net_volume), current_bucket_abs_volume)

\* the step after the last trade: flush, summary and save
FinalStep == pc = "vpin_loop" /\ pc' \in {"vpin_done", "vpin_error"}

\* the record says of itself that it is a partial bucket
MarkedPartial(record) == "partial" \in DOMAIN record /\ record.partial = TRUE

\* the trailing bucket as the final step emits it, short of the marking
TrailingBucketEmitted ==
    IF RLess(Zero, current_bucket_abs_volume)
    THEN /\ RLess(current_bucket_abs_volume, bucket_size)
         /\ Len(bucket_details') = Len(bucket_details) + 1
         /\ SubSeq(bucket_details', 1, Len(bucket_details)) = bucket_details
         /\ LET last == bucket_details'[Len(bucket_details')]
            IN  /\ last.bucket_abs_volume = current_bucket_abs_volume
                /\ last.bucket_net_volume = current_bucket_net_volume
                /\ last.order_imbalance =
                       RDiv(RAbs(current_bucket_net_volume), bucket_size)
    ELSE bucket_details' = bucket_details

\* C17: after the last trade an open bucket with 0 < abs_volume < bucket_size
\* is emitted once, as the final bucket, with imbalance |net| / bucket_size
\* and marked as partial; an empty open bucket adds nothing.
C17_TrailingBucketMarked ==
    [][FinalStep =>
          /\ TrailingBucketEmitted
          /\ RLess(Zero, current_bucket_abs_volume) =>
                 MarkedPartial(bucket_details'[Len(bucket_details')])]_vars

\* the timestamp of the last trade that put volume into bucket k
ClosingTimestamp(k) == tape[Latest(bucket_lines[k])].timestamp

\* C19: bucket k in emission order is numbered k - 1, carries the timestamp
\* of the trade that completed it, and closes no earlier than bucket k - 1.
C19_BucketsOrderedGapFree ==
    \A k \in 1..Len(bucket_details) :
        /\ bucket_details[k].bucket_number = k - 1
        /\ bucket_details[k].timestamp = ClosingTimestamp(k)
        /\ k > 1 => bucket_details[k - 1].timestamp <= bucket_details[k].timestamp

\* a finished run with a trailing bucket, two buckets closed by one trade and
\* two closed at different times
C19_Witness ==
    /\ pc = "vpin_done"
    /\ RLess(Zero, current_bucket_abs_volume)
    /\ \E k \in 2..Len(bucket_details) :
           bucket_details[k - 1].timestamp = bucket_details[k].timestamp
    /\ \E k \in 2..Len(bucket_details) :
           bucket_details[k - 1].timestamp < bucket_details[k].timestamp

\* bucket_size has been computed and is NaN, zero or infinite
DegenerateBucket ==
    /\ pc # "vpin_load"
    /\ (bucket_size = None \/ bucket_size = Zero \/ bucket_size[2] = 0)

\* C20: with a bucket_size that is zero or not finite, calculate_vpin takes no
\* trade in hand, emits no bucket and writes no file.
C20_DegenerateBucketAborts ==
    DegenerateBucket =>
        /\ pc \in {"vpin_loop", "vpin_error"}
        /\ idx = 1
        /\ fragments = <<>>
        /\ bucket_details = <<>>
        /\ vpin_file = None

\* ------------------------------------------------------------ input claims

\* C21: on a tape with no trade of non-zero volume calculate_vpin takes no
\* trade in hand, ends in an error and writes no bucket series.
C21_EmptyTapeAborts ==
    NonZeroRows(tape) = <<>> =>
        /\ pc \in {"vpin_load", "vpin_loop", "vpin_error", "done", "combine_error"}
        /\ idx = 1
        /\ fragments = <<>>
        /\ bucket_details = <<>>
        /\ vpin_file = None

\* the run on a tape of zero-volume rows only has ended in the error
C21_Witness ==
    /\ pc = "vpin_error"
    /\ Len(tape) >= 2
    /\ \A i \in 1..Len(tape) : tape[i].tradevolume = 0

\* the fee scan has its frames
FeeLoaded == pc \in {"fee_loop", "fee_error", "done"} /\ vpin_data # None

\* C22: each pass takes every trade it is given once, in ascending timestamp
\* order, and the fee scan meets the trades with volume in the order in
\* which calculate_vpin met them.
C22_SameOrderBothPasses ==
    /\ \A i \in 1..(Len(df) - 1) : df[i].timestamp <= df[i + 1].timestamp
    /\ pc # "vpin_load" => df = NonZeroRows(tape)
    /\ FeeLoaded =>
           /\ Len(data) = Len(tape)
           /\ {data[i].line : i \in 1..Len(data)} = 1..Len(tape)
           /\ \A i \in 1..(Len(data) - 1) : data[i].timestamp <= data[i + 1].timestamp
           /\ \A i \in 1..Len(results) : results[i].line = data[i].line
           /\ NonZeroRows(data) = df

\* C23: the fee series returned by the scan and the combined series written
\* after it hold one row per row of the tape, in the order of the scan.
C23_OneRowPerTrade ==
    /\ pc \in {"done", "combined"} /\ vpin_data # None =>
           /\ Len(results) = Len(data)
           /\ \A i \in 1..Len(data) : results[i].line = data[i].line
    /\ pc = "combined" =>
           /\ Len(merged) = Len(data)
           /\ \A i \in 1..Len(data) :
                  /\ merged[i].line_pos = data[i].line
                  /\ merged[i].line_fee = data[i].line

\* C24: the scan never fails for want of an exposure, and every fee row
\* reports the inventory exposure of the position at the price of its own
\* trade, whatever the trade's volume.
C24_ExposureOfOwnPrice ==
    /\ pc # "fee_error"
    /\ \A i \in 1..Len(results) :
           results[i].inventory_exposure =
               InventoryExposure(results[i].price, position_params)

\* C25: every iteration of the while loop leaves strictly less of the trade
\* in hand than it found, whatever bucket_size was computed.
C25_FillConsumesVolume ==
    [][pc = "vpin_fill" => RLess(remaining_volume', remaining_volume)]_vars

\* the whole number of times the positive y goes into x, and what is left
FloorDiv(x, y) == LET q == RDiv(x, y) IN q[1] \div q[2]

RMod(x, y) == RSub(x, RMul(R(FloorDiv(x, y)), y))

\* the absolute volume of the first n trades of df
AbsVolumeOf(n) == RSum([i \in 1..n |-> R(Abs(df[i].tradevolume))])

\* the buckets closed while trade number n of df was in hand
ClosedByTrade(n) ==
    {k \in 1..Len(bucket_details) : bucket_details[k].trade_index = n - 1}

\* C26: between two trades the open bucket holds the volume so far modulo
\* bucket_size; a trade of volume v that found c in the open bucket has closed
\* floor((c + v) / bucket_size) buckets, all with its own timestamp, and left
\* (c + v) mod bucket_size.
C26_TradeClosesWholeBuckets ==
    pc = "vpin_loop" /\ df # <<>> =>
        /\ current_bucket_abs_volume = RMod(AbsVolumeOf(idx - 1), bucket_size)
        /\ idx > 1 =>
               LET c == RMod(AbsVolumeOf(idx - 2), bucket_size)
                   v == R(Abs(df[idx - 1].tradevolume))
               IN  /\ RLeq(Zero, c) /\ RLess(c, bucket_size)
                   /\ Cardinality(ClosedByTrade(idx - 1)) =
                          FloorDiv(RAdd(c, v), bucket_size)
                   /\ \A k \in ClosedByTrade(idx - 1) :
                          bucket_details[k].timestamp = df[idx - 1].timestamp
                   /\ current_bucket_abs_volume = RMod(RAdd(c, v), bucket_size)

\* a trade that found a part-filled bucket, closed three buckets and left a
\* remainder
C26_Witness ==
    /\ pc = "vpin_loop"
    /\ idx > 2
    /\ RLess(Zero, RMod(AbsVolumeOf(idx - 2), bucket_size))
    /\ Cardinality(ClosedByTrade(idx - 1)) = 3
    /\ RLess(Zero, current_bucket_abs_volume)

\* the rows of the tape that put volume into a bucket, open or emitted
BucketedLines ==
    current_bucket_lines \cup UNION {bucket_lines[k] : k \in 1..Len(bucket_lines)}

\* C28: calculate_vpin streams exactly the rows with non-zero volume: no
\* zero-volume row is taken in hand or counted into a bucket, and no bucket,
\* the trailing one included, carries a timestamp taken from such a row.
C28_ZeroVolumeExcluded ==
    /\ \A i \in 1..Len(df) : df[i].tradevolume # 0
    /\ pc # "vpin_load" =>
           {df[i].line : i \in 1..Len(df)} =
               {l \in 1..Len(tape) : tape[l].tradevolume # 0}
    /\ \A l \in BucketedLines : tape[l].tradevolume # 0
    /\ \A k \in 1..Len(bucket_details) :
           /\ bucket_details[k].trade_index + 1 \in 1..Len(df)
           /\ bucket_details[k].timestamp =
                  df[bucket_details[k].trade_index + 1].timestamp

\* a finished run over a tape that ends in a later zero-volume row, with a
\* closed bucket and a trailing one
C28_Witness ==
    /\ pc = "vpin_done"
    /\ Len(tape) = 3
    /\ tape[1].tradevolume = 0
    /\ tape[2].tradevolume # 0
    /\ tape[3].tradevolume = 0
    /\ tape[3].timestamp > tape[2].timestamp
    /\ Len(bucket_details) >= 2
    /\ RLess(Zero, current_bucket_abs_volume)

\* the smallest whole number of buckets of size y that hold x
CeilDiv(x, y) ==
    IF RMod(x, y) = Zero THEN FloorDiv(x, y) ELSE FloorDiv(x, y) + 1

EmittedVolume ==
    RSum([k \in 1..Len(bucket_details) |-> bucket_details[k].bucket_abs_volume])

\* C29: between two trades the emitted buckets and the open one hold the
\* volume of the trades streamed so far; after the run the emitted buckets
\* hold the volume of all trades and number ceil(total / bucket_size).
C29_VolumeConserved ==
    /\ pc = "vpin_loop" /\ df # <<>> =>
           RAdd(EmittedVolume, current_bucket_abs_volume) = AbsVolumeOf(idx - 1)
    /\ pc \in {"vpin_done", "vpin_error"} /\ df # <<>> =>
           /\ EmittedVolume = AbsVolumeOf(Len(df))
           /\ Len(bucket_details) = CeilDiv(AbsVolumeOf(Len(df)), bucket_size)

\* a finished run of three trades whose volume is not a whole number of
\* buckets
C29_Witness ==
    /\ pc = "vpin_done"
    /\ Len(df) = 3
    /\ Len(bucket_details) >= 4
    /\ RMod(AbsVolumeOf(Len(df)), bucket_size) # Zero

\* C30: when the run ends on a part-filled bucket, its imbalance |net| /
\* bucket_size is appended to each of the three windows, the oldest entry
\* leaving a window that was full, and the bucket's three toxicity values are
\* the means of the windows with that imbalance in them.
C30_TrailingBucketInWindows ==
    [][(FinalStep /\ RLess(Zero, current_bucket_abs_volume)) =>
          LET imbalance == RDiv(RAbs(current_bucket_net_volume), bucket_size)
              last == bucket_details'[Len(bucket_details')]
          IN  /\ last.order_imbalance = imbalance
              /\ \A key \in WindowKeys :
                     LET before == bucket_imbalances_map[key]
                         after == bucket_imbalances_map'[key]
                         kept == IF Len(before) = sample_lengths[key]
                                 THEN Tail(before) ELSE before
                     IN  /\ after = Append(kept, imbalance)
                         /\ Len(after) <= sample_lengths[key]
                         /\ last[key] = Mean(after)]_vars

\* a finished run whose last bucket is part-filled and was pushed into three
\* full windows, its imbalance differing from the one before it
C30_Witness ==
    /\ pc = "vpin_done"
    /\ Len(bucket_details) > 351
    /\ RLess(Zero, current_bucket_abs_volume)
    /\ RLess(current_bucket_abs_volume, bucket_size)
    /\ bucket_details[Len(bucket_details)].order_imbalance
           # bucket_details[Len(bucket_details) - 1].order_imbalance
    /\ \A key \in WindowKeys :
           /\ Len(bucket_imbalances_map[key]) = sample_lengths[key]
           /\ bucket_imbalances_map[key][sample_lengths[key]] =
                  bucket_details[Len(bucket_details)].order_imbalance

\* ------------------------------------------------------------ cursor claims

\* the cursor is on a bucket of vpin_data and latest_vpin is the value of the
\* chosen window at that bucket
CursorOnBucket ==
    /\ vpin_idx \in 0..(Len(vpin_data) - 1)
    /\ latest_vpin = vpin_data[vpin_idx + 1][vpin_type]

\* C27: during and after the scan over a non-empty bucket series the cursor
\* never moves back, stays on a bucket of the series, and latest_vpin is the
\* chosen window's value at the bucket under the cursor.
C27_CursorMonotoneInRange ==
    [][/\ vpin_idx' >= vpin_idx
       /\ (pc' \in {"fee_loop", "fee_error", "done"} /\ vpin_data' # None)
              => CursorOnBucket']_vars

\* the scan has ended with the cursor past the first bucket, on a bucket
\* whose value differs from the first one's, after a row that left the cursor
\* where it was
C27_Witness ==
    /\ pc = "done"
    /\ vpin_data # None
    /\ vpin_idx > 0
    /\ vpin_data[vpin_idx + 1][vpin_type] # vpin_data[1][vpin_type]
    /\ Len(data) >= 2
    /\ ClosedBy(data[Len(data)].timestamp) = ClosedBy(data[Len(data) - 1].timestamp)

====
